---- MODULE Spec2Model ----
(***************************************************************************)
(* The streaming branch of POST /v1/chat/completions in src/server.js:     *)
(* the 'data', 'end' and 'error' handlers of the upstream response stream  *)
(* and the frames they write to the caller.                                *)
(*                                                                         *)
(* Text is a sequence of symbols.  A symbol stands for a fixed run of one  *)
(* or more bytes; only NL holds a newline byte.  The symbols are chosen so *)
(* that a literal of the code ('data: ', '[DONE]') occurs in the bytes     *)
(* exactly when its symbols occur next to each other in the sequence.      *)
(* Upstream chunks are cut between symbols.                                *)
(***************************************************************************)
EXTENDS Integers, Sequences, FiniteSets, TLC

\* ------------------------------------------------------------------ text
NL == "\n"
SP == " "
QUOTE == "\""
\* the two bytes backslash-n, and backslash-quote, of a JSON string literal
ESCNL == "\\n"
ESCQUOTE == "\\\""

DataPrefix == <<"da", "ta", ":", SP>>
DoneLiteral == <<"[", "DO", "NE", "]">>
OpenMarker == <<"<think>", NL>>
CloseMarker == <<"</think>", NL, NL>>

Last(s) == s[Len(s)]
Front(s) == SubSeq(s, 1, Len(s) - 1)

\* String.prototype.startsWith
StartsWith(s, p) == Len(s) >= Len(p) /\ SubSeq(s, 1, Len(p)) = p

\* String.prototype.includes
Includes(s, p) ==
  \E i \in 1..(Len(s) - Len(p) + 1) : SubSeq(s, i, i + Len(p) - 1) = p

\* String.prototype.slice(n)
Slice(s, n) == SubSeq(s, n + 1, Len(s))

\* String.prototype.split('\n'): the segments between newlines, one more
\* than there are newlines
Split(s) ==
  LET nls == { i \in 1..Len(s) : s[i] = NL }
      NthNL(k) == CHOOSE i \in nls : Cardinality({ j \in nls : j < i }) = k - 1
      n == Cardinality(nls)
  IN [ k \in 1..(n + 1) |->
         SubSeq(s, IF k = 1 THEN 1 ELSE NthNL(k - 1) + 1,
                   IF k = n + 1 THEN Len(s) ELSE NthNL(k) - 1) ]

\* ------------------------------------------------------------ JSON values
Undef == [t |-> "undef"]
Null == [t |-> "null"]
Str(s) == [t |-> "str", s |-> s]
Num(n) == [t |-> "num", n |-> n]
Arr(e) == [t |-> "arr", e |-> e]
Obj(m) == [t |-> "obj", m |-> m]

NumberLexemes == {"0", "1"}

K_choices == <<"choices">>
K_delta == <<"delta">>
K_reasoning == <<"reasoning_content">>
K_content == <<"content">>

HasKey(o, k) == \E i \in 1..Len(o.m) : o.m[i].k = k

KeyIndex(o, k) == CHOOSE i \in 1..Len(o.m) : o.m[i].k = k

\* obj[k]
GetKey(o, k) == IF HasKey(o, k) THEN o.m[KeyIndex(o, k)].v ELSE Undef

\* obj[k] = v: an existing key keeps its place, a new key goes last
SetKey(o, k, v) ==
  IF HasKey(o, k)
  THEN Obj([o.m EXCEPT ![KeyIndex(o, k)] = [k |-> k, v |-> v]])
  ELSE Obj(Append(o.m, [k |-> k, v |-> v]))

\* delete obj[k]
DeleteKey(o, k) ==
  IF HasKey(o, k)
  THEN Obj(SubSeq(o.m, 1, KeyIndex(o, k) - 1)
           \o SubSeq(o.m, KeyIndex(o, k) + 1, Len(o.m)))
  ELSE o

\* ToBoolean
Truthy(v) ==
  CASE v.t = "undef" -> FALSE
    [] v.t = "null" -> FALSE
    [] v.t = "str" -> v.s # <<>>
    [] v.t = "num" -> v.n # "0"
    [] OTHER -> TRUE

\* ------------------------------------------------------------- JSON.parse
ParseFail == [ok |-> FALSE, v |-> Undef, i |-> 0]

RECURSIVE SkipWs(_, _)
SkipWs(s, i) == IF i <= Len(s) /\ s[i] = SP THEN SkipWs(s, i + 1) ELSE i

RECURSIVE ParseStringBody(_, _, _)
ParseStringBody(s, i, acc) ==
  IF i > Len(s) THEN ParseFail
  ELSE IF s[i] = QUOTE THEN [ok |-> TRUE, v |-> Str(acc), i |-> i + 1]
  ELSE IF s[i] = ESCNL THEN ParseStringBody(s, i + 1, Append(acc, NL))
  ELSE IF s[i] = ESCQUOTE THEN ParseStringBody(s, i + 1, Append(acc, QUOTE))
  ELSE IF s[i] = NL THEN ParseFail
  ELSE ParseStringBody(s, i + 1, Append(acc, s[i]))

RECURSIVE ParseValue(_, _)
RECURSIVE ParseMembers(_, _, _)
RECURSIVE ParseElements(_, _, _)

\* the members of an object from position i on, one member at least
ParseMembers(s, i0, acc) ==
  LET i == SkipWs(s, i0) IN
  IF i > Len(s) \/ s[i] # QUOTE THEN ParseFail
  ELSE
    LET key == ParseStringBody(s, i + 1, <<>>) IN
    IF ~key.ok THEN ParseFail
    ELSE
      LET j == SkipWs(s, key.i) IN
      IF j > Len(s) \/ s[j] # ":" THEN ParseFail
      ELSE
        LET val == ParseValue(s, j + 1) IN
        IF ~val.ok THEN ParseFail
        ELSE
          LET n == SkipWs(s, val.i)
              obj == SetKey(acc, key.v.s, val.v)
          IN IF n > Len(s) THEN ParseFail
             ELSE IF s[n] = "}" THEN [ok |-> TRUE, v |-> obj, i |-> n + 1]
             ELSE IF s[n] = "," THEN ParseMembers(s, n + 1, obj)
             ELSE ParseFail

\* the elements of an array from position i on, one element at least
ParseElements(s, i0, acc) ==
  LET val == ParseValue(s, i0) IN
  IF ~val.ok THEN ParseFail
  ELSE
    LET n == SkipWs(s, val.i)
        arr == Append(acc, val.v)
    IN IF n > Len(s) THEN ParseFail
       ELSE IF s[n] = "]" THEN [ok |-> TRUE, v |-> Arr(arr), i |-> n + 1]
       ELSE IF s[n] = "," THEN ParseElements(s, n + 1, arr)
       ELSE ParseFail

ParseValue(s, i0) ==
  LET i == SkipWs(s, i0) IN
  IF i > Len(s) THEN ParseFail
  ELSE IF s[i] = QUOTE THEN ParseStringBody(s, i + 1, <<>>)
  ELSE IF s[i] = "null" THEN [ok |-> TRUE, v |-> Null, i |-> i + 1]
  ELSE IF s[i] \in NumberLexemes THEN [ok |-> TRUE, v |-> Num(s[i]), i |-> i + 1]
  ELSE IF s[i] = "{" THEN
    LET j == SkipWs(s, i + 1) IN
    IF j <= Len(s) /\ s[j] = "}" THEN [ok |-> TRUE, v |-> Obj(<<>>), i |-> j + 1]
    ELSE ParseMembers(s, i + 1, Obj(<<>>))
  ELSE IF s[i] = "[" THEN
    LET j == SkipWs(s, i + 1) IN
    IF j <= Len(s) /\ s[j] = "]" THEN [ok |-> TRUE, v |-> Arr(<<>>), i |-> j + 1]
    ELSE ParseElements(s, i + 1, <<>>)
  ELSE ParseFail

\* JSON.parse(text): [ok, v]; ok = FALSE stands for the SyntaxError thrown
JSONparse(s) ==
  LET r == ParseValue(s, 1) IN
  IF r.ok /\ SkipWs(s, r.i) = Len(s) + 1
  THEN [ok |-> TRUE, v |-> r.v]
  ELSE [ok |-> FALSE, v |-> Undef]

\* --------------------------------------------------------- JSON.stringify
RECURSIVE EscapeFrom(_, _)
EscapeFrom(s, i) ==
  IF i > Len(s) THEN <<>>
  ELSE (IF s[i] = NL THEN <<ESCNL>>
        ELSE IF s[i] = QUOTE THEN <<ESCQUOTE>>
        ELSE <<s[i]>>) \o EscapeFrom(s, i + 1)

Quoted(s) == <<QUOTE>> \o EscapeFrom(s, 1) \o <<QUOTE>>

RECURSIVE JSONstringify(_)
RECURSIVE StringifyMembers(_, _)
RECURSIVE StringifyElements(_, _)

StringifyMembers(m, i) ==
  IF i > Len(m) THEN <<>>
  ELSE (IF i > 1 THEN <<",">> ELSE <<>>)
       \o Quoted(m[i].k) \o <<":">> \o JSONstringify(m[i].v)
       \o StringifyMembers(m, i + 1)

StringifyElements(e, i) ==
  IF i > Len(e) THEN <<>>
  ELSE (IF i > 1 THEN <<",">> ELSE <<>>)
       \o JSONstringify(e[i]) \o StringifyElements(e, i + 1)

JSONstringify(v) ==
  CASE v.t = "str" -> Quoted(v.s)
    [] v.t = "num" -> <<v.n>>
    [] v.t = "null" -> <<"null">>
    [] v.t = "arr" -> <<"[">> \o StringifyElements(v.e, 1) \o <<"]">>
    [] v.t = "obj" -> <<"{">> \o StringifyMembers(v.m, 1) \o <<"}">>

\* ------------------------------------------------- JavaScript operators
\* String(v), as the + operator applies it to a non-string operand
RECURSIVE ToStringJS(_)
RECURSIVE JoinElements(_, _)

JoinElements(e, i) ==
  IF i > Len(e) THEN <<>>
  ELSE (IF i > 1 THEN <<",">> ELSE <<>>)
       \o (IF e[i].t \in {"null", "undef"} THEN <<>> ELSE ToStringJS(e[i]))
       \o JoinElements(e, i + 1)

ToStringJS(v) ==
  CASE v.t = "str" -> v.s
    [] v.t = "num" -> <<v.n>>
    [] v.t = "null" -> <<"null">>
    [] v.t = "undef" -> <<"undefined">>
    [] v.t = "arr" -> JoinElements(v.e, 1)
    [] v.t = "obj" -> <<"[object Object]">>

\* a + b where a or b is a string
Plus(a, b) == Str(ToStringJS(a) \o ToStringJS(b))

\* v[k] for a property name k
Prop(v, k) == IF v.t = "obj" THEN GetKey(v, k) ELSE Undef

\* v[0]
Index0(v) ==
  CASE v.t = "arr" -> IF Len(v.e) >= 1 THEN v.e[1] ELSE Undef
    [] v.t = "str" -> IF Len(v.s) >= 1 THEN Str(<<v.s[1]>>) ELSE Undef
    [] v.t = "obj" -> GetKey(v, <<"0">>)
    [] OTHER -> Undef

Nullish(v) == v.t \in {"null", "undef"}

\* v[k] = x outside strict mode: kept by an object, not serialised for an
\* array, ignored for a primitive
AssignProp(v, k, x) == IF v.t = "obj" THEN SetKey(v, k, x) ELSE v

\* delete v[k]
DeleteProp(v, k) == IF v.t = "obj" THEN DeleteKey(v, k) ELSE v

\* ------------------------------------------------ the 'data' handler body
\* data.choices?.[0]?.delta; reading .choices of null throws a TypeError
DeltaThrows(data) == data.t = "null"

DeltaOf(data) ==
  LET choices == Prop(data, K_choices)
      first == IF Nullish(choices) THEN Undef ELSE Index0(choices)
  IN IF Nullish(first) THEN Undef ELSE Prop(first, K_delta)

\* data with data.choices[0].delta replaced by d
WithDelta(data, d) ==
  LET choices == Prop(data, K_choices)
      first == AssignProp(Index0(choices), K_delta, d)
  IN SetKey(data, K_choices,
            IF choices.t = "arr"
            THEN Arr([choices.e EXCEPT ![1] = first])
            ELSE AssignProp(choices, <<"0">>, first))

\* the close-marker goes before content whether or not a span is open
MergeShown_AlwaysClose(reasoning, content, started) ==
  LET c1 == IF Truthy(reasoning) /\ ~started THEN Plus(Str(OpenMarker), reasoning)
            ELSE IF Truthy(reasoning) THEN reasoning
            ELSE Str(<<>>)
      s1 == IF Truthy(reasoning) /\ ~started THEN TRUE ELSE started
      c2 == IF Truthy(content) THEN Plus(c1, Plus(Str(CloseMarker), content))
            ELSE c1
      s2 == IF Truthy(content) THEN FALSE ELSE s1
  IN [combined |-> c2, started |-> s2]

\* lines 215-229: [combined, started] from reasoning, content and the flag
MergeShown(reasoning, content, started) ==
  LET c1 == IF Truthy(reasoning) /\ ~started THEN Plus(Str(OpenMarker), reasoning)
            ELSE IF Truthy(reasoning) THEN reasoning
            ELSE Str(<<>>)
      s1 == IF Truthy(reasoning) /\ ~started THEN TRUE ELSE started
      c2 == IF Truthy(content) /\ s1 THEN Plus(c1, Plus(Str(CloseMarker), content))
            ELSE IF Truthy(content) THEN Plus(c1, content)
            ELSE c1
      s2 == IF Truthy(content) /\ s1 THEN FALSE ELSE s1
  IN [combined |-> c2, started |-> s2]

\* the reasoning_content field is not deleted
HiddenDelta_KeepReasoning(delta, content) ==
  AssignProp(delta, K_content, IF Truthy(content) THEN content ELSE Str(<<>>))

\* lines 236-237: the delta with reasoning display disabled
HiddenDelta(delta, content) ==
  DeleteProp(AssignProp(delta, K_content,
                 IF Truthy(content) THEN content ELSE Str(<<>>)), K_reasoning)

\* lines 210-239: [data, started] after the delta rewrite
RewriteDelta(data, started, show) ==
  LET delta == DeltaOf(data) IN
  IF ~Truthy(delta) THEN [data |-> data, started |-> started]
  ELSE
    LET reasoning == Prop(delta, K_reasoning)
        content == Prop(delta, K_content)
    IN IF show
       THEN LET m == MergeShown(reasoning, content, started) IN
            IF Truthy(m.combined)
            THEN [data |-> WithDelta(data,
                     DeleteProp(AssignProp(delta, K_content, m.combined), K_reasoning)),
                  started |-> m.started]
            ELSE [data |-> data, started |-> m.started]
       ELSE [data |-> WithDelta(data, HiddenDelta(delta, content)),
             started |-> started]

\* line 204: res.write(line + '\n\n') for a line that includes [DONE]
DoneWrite(line) == line \o <<NL, NL>>

\* the catch block forwards the payload without its prefix
CatchWrite_Payload(line) == Slice(line, Len(DataPrefix)) \o <<NL, NL>>

\* line 243: res.write(line + '\n\n') in the catch block
CatchWrite(line) == line \o <<NL, NL>>

\* line 240: res.write(`data: ${JSON.stringify(data)}\n\n`)
DataWrite(data) == DataPrefix \o JSONstringify(data) \o <<NL, NL>>

\* the catch block resets the merger
ProcessLine_CatchResets(line, started, show) ==
  IF ~StartsWith(line, DataPrefix) THEN [w |-> <<>>, started |-> started]
  ELSE IF Includes(line, DoneLiteral)
    THEN [w |-> <<DoneWrite(line)>>, started |-> started]
  ELSE
    LET p == JSONparse(Slice(line, Len(DataPrefix))) IN
    IF ~p.ok \/ DeltaThrows(p.v)
    THEN [w |-> <<CatchWrite(line)>>, started |-> FALSE]
    ELSE LET r == RewriteDelta(p.v, started, show) IN
         [w |-> <<DataWrite(r.data)>>, started |-> r.started]

\* a line without the prefix is forwarded as it came
ProcessLine_ForwardOther(line, started, show) ==
  IF ~StartsWith(line, DataPrefix)
    THEN [w |-> <<line \o <<NL, NL>>>>, started |-> started]
  ELSE IF Includes(line, DoneLiteral)
    THEN [w |-> <<DoneWrite(line)>>, started |-> started]
  ELSE
    LET p == JSONparse(Slice(line, Len(DataPrefix))) IN
    IF ~p.ok \/ DeltaThrows(p.v)
    THEN [w |-> <<CatchWrite(line)>>, started |-> started]
    ELSE LET r == RewriteDelta(p.v, started, show) IN
         [w |-> <<DataWrite(r.data)>>, started |-> r.started]

\* lines 202-245, one line of lines.forEach: [w, started], w the res.write
\* arguments in order (none or one)
ProcessLine(line, started, show) ==
  IF ~StartsWith(line, DataPrefix) THEN [w |-> <<>>, started |-> started]
  ELSE IF Includes(line, DoneLiteral)
    THEN [w |-> <<DoneWrite(line)>>, started |-> started]
  ELSE
    LET p == JSONparse(Slice(line, Len(DataPrefix))) IN
    IF ~p.ok \/ DeltaThrows(p.v)
    THEN [w |-> <<CatchWrite(line)>>, started |-> started]
    ELSE LET r == RewriteDelta(p.v, started, show) IN
         [w |-> <<DataWrite(r.data)>>, started |-> r.started]

\* the writes of a chunk come out last line first
RECURSIVE ProcessLines_Reversed(_, _, _, _)
ProcessLines_Reversed(lines, i, started, show) ==
  IF i > Len(lines) THEN [w |-> <<>>, started |-> started]
  ELSE LET one == ProcessLine(lines[i], started, show)
           rest == ProcessLines_Reversed(lines, i + 1, one.started, show)
       IN [w |-> rest.w \o one.w, started |-> rest.started]

\* lines.forEach from line i on
RECURSIVE ProcessLines(_, _, _, _)
ProcessLines(lines, i, started, show) ==
  IF i > Len(lines) THEN [w |-> <<>>, started |-> started]
  ELSE LET one == ProcessLine(lines[i], started, show)
           rest == ProcessLines(lines, i + 1, one.started, show)
       IN [w |-> one.w \o rest.w, started |-> rest.started]

\* the carry-over is forgotten between chunks
Carry_Dropped(lines) == <<>>

\* line 199: lines.pop() || ''
Carry(lines) == Last(lines)

\* the last segment is processed as a line as well as carried over
FeedChunk_NoPop(buf, chunk) ==
  LET lines == Split(buf \o chunk)
  IN [lines |-> lines, buffer |-> Carry(lines)]

\* lines 197-199: [lines, buffer] of the buffer with the chunk appended

FeedChunk(buf, chunk) ==
  LET lines == Split(buf \o chunk)
  IN [lines |-> Front(lines), buffer |-> Carry(lines)]

\* ------------------------------------------------------ upstream input
\* one upstream line 'data: {"choices":[{"delta":{...}}]}' without its newline
Member(k, text) == Quoted(k) \o <<":">> \o Quoted(text)

DeltaLine(members) ==
  DataPrefix \o <<"{">> \o Quoted(K_choices) \o <<":", "[", "{">>
  \o Quoted(K_delta) \o <<":", "{">> \o members \o <<"}", "}", "]", "}">>

LineReasoning(r) == DeltaLine(Member(K_reasoning, r))
LineContent(c) == DeltaLine(Member(K_content, c))
LineBoth(r, c) == DeltaLine(Member(K_reasoning, r) \o <<",">> \o Member(K_content, c))
LineDone == DataPrefix \o DoneLiteral
\* a payload that is not JSON
LineMalformed == DataPrefix \o <<"{">> \o Quoted(K_choices) \o <<":">>
\* the blank line that separates server-sent events
LineBlank == <<>>
\* a comment line of the event stream
LineComment == <<":", SP, "ping">>
\* a delta that announces the role only
LineRole == DeltaLine(Member(<<"role">>, <<"assistant">>))
\* a reasoning fragment whose text is the characters [DONE]
LineReasoningDone == LineReasoning(DoneLiteral)
\* content beside a null reasoning_content, with a space after each colon
LineNullReasoning ==
  DeltaLine(Quoted(K_content) \o <<":", SP>> \o Quoted(<<"42">>) \o <<",">>
            \o Quoted(K_reasoning) \o <<":", SP, "null">>)

\* a stream holds at most MaxFrames lines of the menu
MaxFrames == 2
\* a chunk holds at most MaxChunk symbols, or all that is left of the stream
MaxChunk == 3

Menu ==
  { LineReasoning(<<"Let">>), LineContent(<<"42">>), LineBoth(<<"a">>, <<"b">>),
    LineDone, LineMalformed, LineBlank, LineReasoningDone }

Scenarios ==
  { << LineReasoning(<<"Let">>), LineReasoning(<<" me think">>),
       LineContent(<<"42">>), LineDone >>,
    << LineRole, LineComment, LineNullReasoning >>,
    << LineBoth(<<"a">>, DoneLiteral) >> }

FrameSeqs ==
  (UNION { [1..n -> Menu] : n \in 1..MaxFrames }) \cup Scenarios

\* the bytes of the lines, each ended by a newline
RECURSIVE Wire(_, _)
Wire(fs, i) == IF i > Len(fs) THEN <<>> ELSE fs[i] \o <<NL>> \o Wire(fs, i + 1)

Streams == { Wire(fs, 1) : fs \in FrameSeqs }

\* ------------------------------------------------------------------ state
VARIABLES
  SHOW_REASONING,    \* the reasoning display toggle
  stream,            \* the bytes upstream sends if it is not cut short
  pos,               \* how many of them the 'data' handler has received
  buffer,            \* let buffer
  reasoningStarted,  \* let reasoningStarted
  written,           \* the arguments of the res.write calls, in order
  frames,            \* the lines that passed the prefix test, in order
  resEnded,          \* res.end() was called
  upstream,          \* "flowing", "ended" or "errored"
  crashed,           \* an 'error' event found no listener
  callerGone         \* the caller closed its connection

vars ==
  << SHOW_REASONING, stream, pos, buffer, reasoningStarted, written, frames,
     resEnded, upstream, crashed, callerGone >>

\* the bytes received so far
received == SubSeq(stream, 1, pos)

\* the sizes the next chunk can have when rem symbols are left
ChunkSizes(rem) == { n \in 1..rem : n <= MaxChunk \/ n = rem }

\* the lines of a list that pass line.startsWith('data: ')
RECURSIVE DataLines(_, _)
DataLines(lines, i) ==
  IF i > Len(lines) THEN <<>>
  ELSE (IF StartsWith(lines[i], DataPrefix) THEN <<lines[i]>> ELSE <<>>)
       \o DataLines(lines, i + 1)

\* response.data.on('error', ...) registers a listener
ErrorListenerRegistered == TRUE

Init ==
  /\ SHOW_REASONING \in BOOLEAN
  /\ stream \in Streams
  /\ pos = 0
  /\ buffer = <<>>
  /\ reasoningStarted = FALSE
  /\ written = <<>>
  /\ frames = <<>>
  /\ resEnded = FALSE
  /\ upstream = "flowing"
  /\ crashed = FALSE
  /\ callerGone = FALSE

\* response.data.on('data'): the next n symbols arrive as one chunk
OnData ==
  /\ upstream = "flowing"
  /\ \E n \in ChunkSizes(Len(stream) - pos) :
       LET chunk == SubSeq(stream, pos + 1, pos + n)
           fed == FeedChunk(buffer, chunk)
           done == ProcessLines(fed.lines, 1, reasoningStarted, SHOW_REASONING)
       IN /\ pos' = pos + n
          /\ buffer' = fed.buffer
          /\ reasoningStarted' = done.started
          /\ written' = written \o done.w
          /\ frames' = frames \o DataLines(fed.lines, 1)
  /\ UNCHANGED << SHOW_REASONING, stream, resEnded, upstream, crashed, callerGone >>

\* the end handler writes a terminator of its own
OnEnd_SyntheticDone ==
  /\ upstream = "flowing"
  /\ upstream' = "ended"
  /\ written' = Append(written, LineDone \o <<NL, NL>>)
  /\ resEnded' = TRUE
  /\ UNCHANGED << SHOW_REASONING, stream, pos, buffer, reasoningStarted,
                  frames, crashed, callerGone >>

\* the end handler processes the carry-over as a last line
OnEnd_FlushLeftover ==
  /\ upstream = "flowing"
  /\ upstream' = "ended"
  /\ LET done == ProcessLine(buffer, reasoningStarted, SHOW_REASONING)
     IN /\ written' = written \o done.w
        /\ reasoningStarted' = done.started
  /\ resEnded' = TRUE
  /\ UNCHANGED << SHOW_REASONING, stream, pos, buffer, frames, crashed, callerGone >>

\* response.data.on('end'): upstream closes, after any prefix of the stream
OnEnd ==
  /\ upstream = "flowing"
  /\ upstream' = "ended"
  /\ resEnded' = TRUE
  /\ UNCHANGED << SHOW_REASONING, stream, pos, buffer, reasoningStarted,
                  written, frames, crashed, callerGone >>

\* the error handler flushes the carry-over before it ends the response
OnError_Flush ==
  /\ upstream = "flowing"
  /\ upstream' = "errored"
  /\ crashed' = FALSE
  /\ written' = IF buffer # <<>> THEN Append(written, buffer \o <<NL, NL>>)
                ELSE written
  /\ resEnded' = TRUE
  /\ UNCHANGED << SHOW_REASONING, stream, pos, buffer, reasoningStarted,
                  frames, callerGone >>

\* response.data.on('error'): upstream fails, after any prefix of the stream
OnError ==
  /\ upstream = "flowing"
  /\ upstream' = "errored"
  /\ crashed' = ~ErrorListenerRegistered
  /\ resEnded' = (resEnded \/ ErrorListenerRegistered)
  /\ UNCHANGED << SHOW_REASONING, stream, pos, buffer, reasoningStarted,
                  written, frames, callerGone >>

\* the caller disconnects mid-stream; no handler of the code listens for it
CallerDisconnects ==
  /\ upstream = "flowing"
  /\ ~callerGone
  /\ callerGone' = TRUE
  /\ UNCHANGED << SHOW_REASONING, stream, pos, buffer, reasoningStarted,
                  written, frames, resEnded, upstream, crashed >>

Next == OnData \/ OnEnd \/ OnError \/ CallerDisconnects

Spec == Init /\ [][Next]_vars

\* ------------------------------------------- concurrent streaming requests
\* app.post runs once per request: each run declares its own buffer and
\* reasoningStarted and registers its own handlers, and a handler runs to
\* completion before the next event is taken. Under SpecTwo each variable
\* but SHOW_REASONING and crashed is a function of the request.

\* the streaming requests in flight
NumRequests == 2
Requests == 1..NumRequests

\* a chunk of a concurrent request holds BurstLen symbols, or all that is left
BurstLen == 9
BurstSizes(rem) == { n \in 1..rem : n = BurstLen \/ n = rem }

\* what the upstream of a concurrent request sends
ConcurrentStreams ==
  { Wire(<<LineReasoning(<<"Let">>), LineContent(<<"42">>)>>, 1),
    Wire(<<LineContent(<<"42">>)>>, 1) }

InitTwo ==
  /\ SHOW_REASONING \in BOOLEAN
  /\ stream \in [Requests -> ConcurrentStreams]
  /\ pos = [r \in Requests |-> 0]
  /\ buffer = [r \in Requests |-> <<>>]
  /\ reasoningStarted = [r \in Requests |-> FALSE]
  /\ written = [r \in Requests |-> <<>>]
  /\ frames = [r \in Requests |-> <<>>]
  /\ resEnded = [r \in Requests |-> FALSE]
  /\ upstream = [r \in Requests |-> "flowing"]
  /\ crashed = FALSE
  /\ callerGone = [r \in Requests |-> FALSE]

\* buffer and reasoningStarted declared once, outside the request handler
OnDataOf_SharedState(r) ==
  /\ upstream[r] = "flowing"
  /\ \E n \in BurstSizes(Len(stream[r]) - pos[r]) :
       LET chunk == SubSeq(stream[r], pos[r] + 1, pos[r] + n)
           fed == FeedChunk(buffer[1], chunk)
           done == ProcessLines(fed.lines, 1, reasoningStarted[1], SHOW_REASONING)
       IN /\ pos' = [pos EXCEPT ![r] = pos[r] + n]
          /\ buffer' = [q \in Requests |-> fed.buffer]
          /\ reasoningStarted' = [q \in Requests |-> done.started]
          /\ written' = [written EXCEPT ![r] = written[r] \o done.w]
          /\ frames' = [frames EXCEPT ![r] = frames[r] \o DataLines(fed.lines, 1)]
  /\ UNCHANGED << SHOW_REASONING, stream, resEnded, upstream, crashed, callerGone >>

\* response.data.on('data') of request r
OnDataOf(r) ==
  /\ upstream[r] = "flowing"
  /\ \E n \in BurstSizes(Len(stream[r]) - pos[r]) :
       LET chunk == SubSeq(stream[r], pos[r] + 1, pos[r] + n)
           fed == FeedChunk(buffer[r], chunk)
           done == ProcessLines(fed.lines, 1, reasoningStarted[r], SHOW_REASONING)
       IN /\ pos' = [pos EXCEPT ![r] = pos[r] + n]
          /\ buffer' = [buffer EXCEPT ![r] = fed.buffer]
          /\ reasoningStarted' = [reasoningStarted EXCEPT ![r] = done.started]
          /\ written' = [written EXCEPT ![r] = written[r] \o done.w]
          /\ frames' = [frames EXCEPT ![r] = frames[r] \o DataLines(fed.lines, 1)]
  /\ UNCHANGED << SHOW_REASONING, stream, resEnded, upstream, crashed, callerGone >>

\* response.data.on('end') of request r
OnEndOf(r) ==
  /\ upstream[r] = "flowing"
  /\ upstream' = [upstream EXCEPT ![r] = "ended"]
  /\ resEnded' = [resEnded EXCEPT ![r] = TRUE]
  /\ UNCHANGED << SHOW_REASONING, stream, pos, buffer, reasoningStarted,
                  written, frames, crashed, callerGone >>

\* response.data.on('error') of request r
OnErrorOf(r) ==
  /\ upstream[r] = "flowing"
  /\ upstream' = [upstream EXCEPT ![r] = "errored"]
  /\ crashed' = (crashed \/ ~ErrorListenerRegistered)
  /\ resEnded' = [resEnded EXCEPT ![r] = (resEnded[r] \/ ErrorListenerRegistered)]
  /\ UNCHANGED << SHOW_REASONING, stream, pos, buffer, reasoningStarted,
                  written, frames, callerGone >>

NextTwo == \E r \in Requests : OnDataOf(r) \/ OnEndOf(r) \/ OnErrorOf(r)

SpecTwo == InitTwo /\ [][NextTwo]_vars

\* ------------------------------------------------------------ properties
\* the line of a written frame, without the two newlines that end it
FrameLine(w) == SubSeq(w, 1, Len(w) - 2)

\* choices[0].delta of the JSON payload of a line, Undef when there is none
LineDelta(line) ==
  LET p == JSONparse(Slice(line, Len(DataPrefix))) IN
  IF StartsWith(line, DataPrefix) /\ p.ok /\ ~DeltaThrows(p.v)
  THEN DeltaOf(p.v) ELSE Undef

ReasoningOf(line) == Prop(LineDelta(line), K_reasoning)
ContentOf(line) == Prop(LineDelta(line), K_content)
IsText(v) == v.t = "str" /\ v.s # <<>>

\* the written frames as one sequence of symbols
RECURSIVE Flat(_, _)
Flat(ws, i) == IF i > Len(ws) THEN <<>> ELSE ws[i] \o Flat(ws, i + 1)

\* open-markers minus close-markers among the first n symbols of s
MarkerDepth(s, n) ==
  Cardinality({ i \in 1..n : s[i] = "<think>" })
    - Cardinality({ i \in 1..n : s[i] = "</think>" })

C2_ChannelOrdering ==
  SHOW_REASONING =>
    LET out == Flat(written, 1) IN
    \A n \in 0..Len(out) :
      /\ MarkerDepth(out, n) \in {0, 1}
      /\ (n > 0 /\ out[n] = "</think>") => MarkerDepth(out, n - 1) = 1

\* a span was closed and a new one is open
C2_Witness ==
  /\ SHOW_REASONING
  /\ reasoningStarted
  /\ Includes(Flat(written, 1), <<"</think>">>)

C3_Suppression ==
  ~SHOW_REASONING =>
    \A i \in 1..Len(written) :
      LET line == FrameLine(written[i]) IN
      /\ ~Truthy(ReasoningOf(line))
      /\ \A j \in 1..Len(frames) :
           IsText(ReasoningOf(frames[j])) => ContentOf(line) # ReasoningOf(frames[j])
      /\ ~Includes(line, <<"<think>">>)
      /\ ~Includes(line, <<"</think>">>)

\* the step processed exactly one 'data: ' frame
OneFrameStep == Len(frames') = Len(frames) + 1 /\ Len(written') = Len(written) + 1

\* C4: with reasoning display enabled, a frame with both a reasoning text r
\* and a content text c is written with content (open-marker if Closed) + r +
\* close-marker + c, and the merger is Closed afterwards.
C4_SameFrameSplit ==
  [][ (/\ SHOW_REASONING
       /\ Len(frames') = Len(frames) + 1
       /\ IsText(ReasoningOf(Last(frames')))
       /\ IsText(ContentOf(Last(frames'))))
      => /\ OneFrameStep
         /\ ContentOf(FrameLine(Last(written'))) =
              Str((IF reasoningStarted THEN <<>> ELSE OpenMarker)
                  \o ReasoningOf(Last(frames')).s
                  \o CloseMarker
                  \o ContentOf(Last(frames')).s)
         /\ ~Truthy(ReasoningOf(FrameLine(Last(written'))))
         /\ ~reasoningStarted' ]_vars

\* the four frames of the scenario and what the caller is to receive for them
ScenarioStream ==
  Wire(<< LineReasoning(<<"Let">>), LineReasoning(<<" me think">>),
          LineContent(<<"42">>), LineDone >>, 1)

ScenarioShown ==
  << LineContent(OpenMarker \o <<"Let">>) \o <<NL, NL>>,
     LineContent(<<" me think">>) \o <<NL, NL>>,
     LineContent(CloseMarker \o <<"42">>) \o <<NL, NL>>,
     LineDone \o <<NL, NL>> >>

ScenarioDone == stream = ScenarioStream /\ pos = Len(stream)

\* C5: with reasoning display enabled, a frame with one fragment is written
\* as the transition table says (Closed+r: open-marker+r, Open; Closed+c: c,
\* Closed; Open+r: r, Open; Open+c: close-marker+c, Closed), and the scenario
\* Let, " me think", 42, [DONE] is written as its four expected frames.
C5_TransitionTable ==
  [][ /\ (/\ SHOW_REASONING
          /\ Len(frames') = Len(frames) + 1
          /\ IsText(ReasoningOf(Last(frames')))
          /\ ~Truthy(ContentOf(Last(frames'))))
         => /\ OneFrameStep
            /\ ContentOf(FrameLine(Last(written'))) =
                 Str((IF reasoningStarted THEN <<>> ELSE OpenMarker)
                     \o ReasoningOf(Last(frames')).s)
            /\ reasoningStarted'
      /\ (/\ SHOW_REASONING
          /\ Len(frames') = Len(frames) + 1
          /\ IsText(ContentOf(Last(frames')))
          /\ ~Truthy(ReasoningOf(Last(frames'))))
         => /\ OneFrameStep
            /\ ContentOf(FrameLine(Last(written'))) =
                 Str((IF reasoningStarted THEN CloseMarker ELSE <<>>)
                     \o ContentOf(Last(frames')).s)
            /\ ~reasoningStarted'
      /\ (SHOW_REASONING' /\ ScenarioDone') => written' = ScenarioShown ]_vars

\* the frames that carry a reasoning text and no content
ReasoningOnly(line) == IsText(ReasoningOf(line)) /\ ~Truthy(ContentOf(line))

\* C7 as stated: with reasoning display disabled, a frame that carries only
\* a reasoning fragment is not answered by any written frame, and the
\* scenario is written as two frames, content 42 and the sentinel.
C7_ReasoningOnlySilent ==
  ~SHOW_REASONING =>
    /\ Len(written) = Cardinality({ i \in 1..Len(frames) : ~ReasoningOnly(frames[i]) })
    /\ ScenarioDone =>
         written = << LineContent(<<"42">>) \o <<NL, NL>>, LineDone \o <<NL, NL>> >>

ScenarioHidden ==
  << LineContent(<<>>) \o <<NL, NL>>,
     LineContent(<<>>) \o <<NL, NL>>,
     LineContent(<<"42">>) \o <<NL, NL>>,
     LineDone \o <<NL, NL>> >>

\* C7 amended: with reasoning display disabled, every 'data: ' frame, one
\* that carries only a reasoning fragment included, is answered by exactly
\* one written frame, and the scenario is written as four frames: two with
\* content "" and no reasoning_content, content 42 and the sentinel.
C7_ReasoningOnlyEmpty ==
  ~SHOW_REASONING =>
    /\ Len(written) = Len(frames)
    /\ ScenarioDone => written = ScenarioHidden

\* the scenario was received whole with reasoning display disabled
C7_Witness ==
  /\ ~SHOW_REASONING
  /\ ScenarioDone
  /\ \E i \in 1..Len(frames) : ReasoningOnly(frames[i])

\* C8: once the caller is gone no upstream chunk is consumed or processed.
C8_NoOrphanedConsumption ==
  [][ callerGone => (pos' = pos /\ written' = written) ]_vars

\* C9: the step in which upstream fails ends the response, writes nothing
\* and leaves no fault unhandled, and nothing is written after it.
C9_UpstreamError ==
  [][ upstream' = "errored"
      => (resEnded' /\ written' = written /\ ~crashed') ]_vars

\* upstream failed mid-stream, with frames written and a partial line held
C9_Witness ==
  /\ upstream = "errored"
  /\ resEnded
  /\ written # <<>>
  /\ buffer # <<>>
  /\ pos < Len(stream)

\* the indices of the sentinel frame in a list of lines
SentinelsIn(lines, tail) == { i \in 1..Len(lines) : lines[i] = LineDone \o tail }

\* C10: when upstream has ended the response is ended, and the sentinel
\* frames written never outnumber the sentinel frames received, so none is
\* written when none was received.
C10_NoSyntheticDone ==
  /\ upstream = "ended" => resEnded
  /\ Cardinality(SentinelsIn(written, <<NL, NL>>))
       <= Cardinality(SentinelsIn(frames, <<>>))

\* upstream ended after frames were written and no sentinel was received
C10_Witness ==
  /\ upstream = "ended"
  /\ resEnded
  /\ written # <<>>
  /\ SentinelsIn(frames, <<>>) = {}
  /\ SentinelsIn(written, <<NL, NL>>) = {}

\* the payload of a 'data: ' line
PayloadOf(line) == Slice(line, Len(DataPrefix))

\* C11: a 'data: ' frame is written unchanged, with the merger untouched,
\* when its payload is the sentinel [DONE]; a frame with another payload that
\* parses is decoded and merged, the characters [DONE] in its text or not.
C11_TerminalDetection ==
  [][ Len(frames') = Len(frames) + 1 =>
        LET line == Last(frames')
            p == JSONparse(PayloadOf(line))
            r == RewriteDelta(p.v, reasoningStarted, SHOW_REASONING)
        IN /\ PayloadOf(line) = DoneLiteral
                => /\ OneFrameStep
                   /\ Last(written') = line \o <<NL, NL>>
                   /\ reasoningStarted' = reasoningStarted
           /\ (PayloadOf(line) # DoneLiteral /\ p.ok /\ ~DeltaThrows(p.v))
                => /\ OneFrameStep
                   /\ Last(written') = DataWrite(r.data)
                   /\ reasoningStarted' = r.started ]_vars

\* the newline positions of the received bytes, and the last of them
ReceivedNewlines == { i \in 1..pos : stream[i] = NL }

LastNewline ==
  IF ReceivedNewlines = {} THEN 0
  ELSE CHOOSE i \in ReceivedNewlines : \A j \in ReceivedNewlines : j <= i

SplitDoneStream == Wire(<<LineDone>>, 1)

\* C12: every frame processed is a whole line of the received bytes with its
\* newline received, each is answered by one write, the bytes after the last
\* newline are the carry-over, and the stream 'data: [DONE]\n' causes no
\* write before its newline arrives and one [DONE] frame when it does.
C12_NoPartialFrame ==
  /\ buffer = SubSeq(stream, LastNewline + 1, pos)
  /\ Len(written) = Len(frames)
  /\ Len(frames) <= Cardinality(ReceivedNewlines)
  /\ \A i \in 1..Len(frames) :
       Includes(<<NL>> \o SubSeq(stream, 1, LastNewline),
                <<NL>> \o frames[i] \o <<NL>>)
  /\ stream = SplitDoneStream =>
       written = IF pos < Len(stream) THEN <<>> ELSE <<LineDone \o <<NL, NL>>>>

\* 'data: [DO' has arrived and 'NE]\n' has not
C12_Witness ==
  /\ stream = SplitDoneStream
  /\ buffer = DataPrefix \o <<"[", "DO">>
  /\ written = <<>>

\* C13: the step in which upstream ends writes nothing and processes no
\* frame, whatever the carry-over holds, and nothing is written after it.
C13_LeftoverDiscarded ==
  [][ upstream' = "ended"
      => (written' = written /\ frames' = frames /\ buffer' = buffer) ]_vars

\* upstream ended with a whole sentinel line, less its newline, carried over
C13_Witness ==
  /\ upstream = "ended"
  /\ buffer = LineDone
  /\ SentinelsIn(written, <<NL, NL>>) = {}

\* the merger flag before the i-th processed frame
StartedBefore(i) ==
  ProcessLines(SubSeq(frames, 1, i - 1), 1, FALSE, SHOW_REASONING).started

\* C14: the i-th write is the one write for the i-th 'data: ' frame received,
\* and it holds one line and the two newlines that end it.
C14_ArrivalOrder ==
  /\ Len(written) = Len(frames)
  /\ \A i \in 1..Len(frames) :
       /\ <<written[i]>> = ProcessLine(frames[i], StartedBefore(i), SHOW_REASONING).w
       /\ \A k \in 1..Len(written[i]) : written[i][k] = NL <=> k >= Len(written[i]) - 1

\* two different frames were written
C14_Witness ==
  /\ Len(written) >= 2
  /\ written[1] # written[2]
  /\ frames[1] # frames[2]

\* what a request that runs alone has done when p symbols of s were received
SoloRun(s, p, show) ==
  LET fed == FeedChunk(<<>>, SubSeq(s, 1, p))
      done == ProcessLines(fed.lines, 1, FALSE, show)
  IN [buffer |-> fed.buffer, started |-> done.started, w |-> done.w]

\* C15: with several streaming requests in flight and their events
\* interleaved, an event of one request leaves every other request's
\* carry-over, merger flag and written frames as they were, and after every
\* event each request's carry-over, flag and written frames are those of the
\* same request run alone over the bytes it has received.
C15_PerRequestIsolation ==
  [][ \A r \in Requests :
        /\ (pos'[r] = pos[r] /\ upstream'[r] = upstream[r])
             => /\ buffer'[r] = buffer[r]
                /\ reasoningStarted'[r] = reasoningStarted[r]
                /\ written'[r] = written[r]
        /\ LET solo == SoloRun(stream[r], pos'[r], SHOW_REASONING)
           IN /\ buffer'[r] = solo.buffer
              /\ reasoningStarted'[r] = solo.started
              /\ written'[r] = solo.w ]_vars

\* two requests in flight, each part-way through a line of its own, one
\* with a reasoning span open and the other not
C15_Witness ==
  /\ upstream[1] = "flowing" /\ upstream[2] = "flowing"
  /\ buffer[1] # <<>> /\ buffer[2] # <<>> /\ buffer[1] # buffer[2]
  /\ reasoningStarted[1] /\ ~reasoningStarted[2]
  /\ Len(written[1]) = 1 /\ written[2] = <<>>

\* a 'data: ' frame whose payload JSON.parse rejects
Malformed(line) == ~JSONparse(PayloadOf(line)).ok

\* the entries of xs, a list aligned with frames, whose frame is not malformed
RECURSIVE WithoutMalformed(_, _)
WithoutMalformed(xs, i) ==
  IF i > Len(xs) THEN <<>>
  ELSE (IF Malformed(frames[i]) THEN <<>> ELSE <<xs[i]>>)
       \o WithoutMalformed(xs, i + 1)

\* C16: the merger flag and the writes for the frames that parse are those
\* of the same frames with every malformed frame left out.
C16_MalformedNonFatal ==
  LET ref == ProcessLines(WithoutMalformed(frames, 1), 1, FALSE, SHOW_REASONING)
  IN /\ Len(written) = Len(frames)
     /\ WithoutMalformed(written, 1) = ref.w
     /\ reasoningStarted = ref.started

\* a reasoning span opened by a frame that came after a malformed frame
C16_Witness ==
  /\ SHOW_REASONING
  /\ Len(frames) = 2
  /\ frames[1] = LineMalformed
  /\ written[1] = LineMalformed \o <<NL, NL>>
  /\ reasoningStarted

\* the lines of the received bytes whose newline was received
CompleteLines == Front(Split(received))

\* C17: the writes and the merger flag are those of the complete lines that
\* begin with 'data: ', the other complete lines left out, one write for
\* each line with the prefix.
C17_PrefixFilter ==
  LET ref == ProcessLines(DataLines(CompleteLines, 1), 1, FALSE, SHOW_REASONING)
  IN /\ written = ref.w
     /\ reasoningStarted = ref.started
     /\ Len(written) =
          Cardinality({ i \in 1..Len(CompleteLines) :
                          StartsWith(CompleteLines[i], DataPrefix) })

\* a comment line was received between two frames that were written
C17_Witness ==
  /\ Len(CompleteLines) = 3
  /\ CompleteLines[2] = LineComment
  /\ Len(written) = 2

\* s from position i on with the open- and close-markers taken out
RECURSIVE StripMarkers(_, _)
StripMarkers(s, i) ==
  IF i > Len(s) THEN <<>>
  ELSE IF i + 1 <= Len(s) /\ SubSeq(s, i, i + 1) = OpenMarker
    THEN StripMarkers(s, i + 2)
  ELSE IF i + 2 <= Len(s) /\ SubSeq(s, i, i + 2) = CloseMarker
    THEN StripMarkers(s, i + 3)
  ELSE <<s[i]>> \o StripMarkers(s, i + 1)

TextOf(v) == IF v.t = "str" THEN v.s ELSE <<>>

\* the reasoning text then the content text of each frame from i on
RECURSIVE InputText(_)
InputText(i) ==
  IF i > Len(frames) THEN <<>>
  ELSE TextOf(ReasoningOf(frames[i])) \o TextOf(ContentOf(frames[i]))
       \o InputText(i + 1)

\* the content text, markers taken out, of each written frame from i on
RECURSIVE OutputText(_)
OutputText(i) ==
  IF i > Len(written) THEN <<>>
  ELSE StripMarkers(TextOf(ContentOf(FrameLine(written[i]))), 1)
       \o OutputText(i + 1)

\* C18: with reasoning display enabled and only well-formed delta frames
\* received, the output contents without markers spell each frame's reasoning
\* text then its content text, in order, and no written frame keeps a
\* reasoning_content text.
C18_TextPreserved ==
  (/\ SHOW_REASONING
   /\ \A i \in 1..Len(frames) : LineDelta(frames[i]).t = "obj")
  => /\ OutputText(1) = InputText(1)
     /\ \A i \in 1..Len(written) : ~Truthy(ReasoningOf(FrameLine(written[i])))

HasFragment(line) == IsText(ReasoningOf(line)) \/ IsText(ContentOf(line))

HasMarker(w) == Includes(w, <<"<think>">>) \/ Includes(w, <<"</think>">>)

\* the last of the frames fs that carries a fragment carries reasoning only
LastFragmentIsReasoning(fs) ==
  \E i \in 1..Len(fs) :
    /\ ReasoningOnly(fs[i])
    /\ \A j \in (i + 1)..Len(fs) : ~HasFragment(fs[j])

\* C19: with reasoning display enabled, the end and error steps write
\* nothing and leave the merger flag alone, a sentinel frame is written
\* without a marker and leaves the flag alone, a marker is written only for a
\* frame that carries a fragment, and a stream whose last fragment is
\* reasoning ends with one open-marker unmatched.
C19_UnclosedSpan ==
  [][ SHOW_REASONING =>
        /\ upstream' # upstream
             => (written' = written /\ reasoningStarted' = reasoningStarted)
        /\ (Len(frames') = Len(frames) + 1 /\ PayloadOf(Last(frames')) = DoneLiteral)
             => (OneFrameStep /\ ~HasMarker(Last(written'))
                 /\ reasoningStarted' = reasoningStarted)
        /\ (Len(frames') = Len(frames) + 1 /\ OneFrameStep /\ HasMarker(Last(written')))
             => HasFragment(Last(frames'))
        /\ (upstream' # "flowing" /\ LastFragmentIsReasoning(frames'))
             => (/\ reasoningStarted'
                 /\ MarkerDepth(Flat(written', 1), Len(Flat(written', 1))) = 1) ]_vars

====
